---- MODULE Spec2Model ----
(***************************************************************************)
(* Risk Parity & Tax Location Optimizer (src/app.py).                      *)
(*                                                                         *)
(* Money is counted in whole units.  Weights are exact rationals kept as   *)
(* integer numerators over one common denominator, so that                 *)
(* weight * total_portfolio_value is an integer in units of                *)
(* 1/denominator; account balances handed to the allocator are expressed   *)
(* in the same unit.                                                       *)
(***************************************************************************)
EXTENDS Integers, Sequences, FiniteSets, TLC

\* ---------------------------------------------------------------- bounds
MaxWeight == 2
MaxBalance == 2
MaxVol == 3
MaxPrice == 2

\* ------------------------------------------------------- program constants
\* tax_inefficiency.get(t, 5): the score of a ticker absent from the table
DefaultScore == 5

\* min_vol = 0.001; volatilities are counted in units of 0.0005
min_vol == 2

\* the tax_inefficiency table
tax_inefficiency ==
  [t \in {"TLT", "IEF", "BND", "GLD", "DBC", "VNQ", "SPY", "VTI", "QQQ", "EEM", "VEA"} |->
     CASE t \in {"TLT", "IEF", "BND"} -> 10
       [] t \in {"GLD", "DBC"} -> 8
       [] t = "VNQ" -> 9
       [] t \in {"SPY", "VTI", "QQQ"} -> 2
       [] OTHER -> 3]

\* tax_inefficiency.get(t, 5)
Inefficiency_Score(t) ==
  IF t \in DOMAIN tax_inefficiency THEN tax_inefficiency[t] ELSE DefaultScore

\* Tickers the inputs are drawn from: a list of distinct tickers of one of
\* these sets ("XYZ" and "ABC" are absent from the table).
TickerUniverses == {{"TLT", "IEF", "SPY"}, {"XYZ", "ABC"}}

\* Account names the inputs are drawn from, with their characters: the
\* classification below is Python's case-sensitive substring test.
NameChars ==
  [n \in {"Roth IRA", "HSA", "Traditional IRA/401k", "Taxable Account", "Roth", "401k", "Brokerage"} |->
     CASE n = "Roth IRA" -> <<"R","o","t","h"," ","I","R","A">>
       [] n = "HSA" -> <<"H","S","A">>
       [] n = "Traditional IRA/401k" ->
            <<"T","r","a","d","i","t","i","o","n","a","l"," ","I","R","A","/","4","0","1","k">>
       [] n = "Taxable Account" ->
            <<"T","a","x","a","b","l","e"," ","A","c","c","o","u","n","t">>
       [] n = "Roth" -> <<"R","o","t","h">>
       [] n = "401k" -> <<"4","0","1","k">>
       [] OTHER -> <<"B","r","o","k","e","r","a","g","e">>]

\* An accounts dict has distinct names of one of these sets, in any order;
\* the first set is the one the page builds (lines 191-195).
NameUniverses == {{"Taxable Account", "Traditional IRA/401k", "Roth IRA"}, {"HSA", "Roth IRA"}}

\* kw in acc_name (substring)
Contains(kw, name) ==
  \E k \in 1..Len(NameChars[name]) :
     /\ k + Len(kw) - 1 <= Len(NameChars[name])
     /\ SubSeq(NameChars[name], k, k + Len(kw) - 1) = kw

\* mutant: the IRA/401k test comes first
Priority_DeferredFirst(name) ==
  IF Contains(<<"I","R","A">>, name) \/ Contains(<<"4","0","1","k">>, name) THEN 2
  ELSE IF Contains(<<"R","o","t","h">>, name) \/ Contains(<<"H","S","A">>, name) THEN 1
  ELSE 3

\* lines 87-91: the priority of an account name, first match wins
Priority(name) ==
  IF Contains(<<"R","o","t","h">>, name) \/ Contains(<<"H","S","A">>, name) THEN 1
  ELSE IF Contains(<<"I","R","A">>, name) \/ Contains(<<"4","0","1","k">>, name) THEN 2
  ELSE 3

\* line 127: the label of a priority
Tax_Type(priority) ==
  IF priority = 1 THEN "Tax-Free" ELSE IF priority = 2 THEN "Deferred" ELSE "Taxable"

\* ------------------------------------------------------------- helpers
Min(a, b) == IF a <= b THEN a ELSE b

\* the non-empty sequences of distinct elements of S
DistinctSeqs(S) ==
  UNION {{s \in [1..k -> S] : \A a, b \in 1..k : a # b => s[a] # s[b]} :
           k \in 1..Cardinality(S)}

\* the permutations of 1..n
Perms(n) == {p \in [1..n -> 1..n] : \A a, b \in 1..n : a # b => p[a] # p[b]}

\* ------------------------------------------------ optimize_asset_location
\* lines 65, 78-80: one row per asset, in the order of target_weights
AssetRows(total, weights) ==
  [k \in 1..Len(weights) |->
     [Asset |-> weights[k].Asset,
      Target_Value |-> weights[k].Weight * total,
      Inefficiency_Score |-> Inefficiency_Score(weights[k].Asset)]]

\* mutant: the rows are sorted by ascending score
SortValuesAscending(rows) ==
  {[k \in 1..Len(rows) |-> rows[p[k]]] : p \in
     {q \in Perms(Len(rows)) :
        \A k \in 1..(Len(rows) - 1) :
           rows[q[k]].Inefficiency_Score <= rows[q[k + 1]].Inefficiency_Score}}

\* line 81: sort_values(by='Inefficiency_Score', ascending=False) with pandas'
\* default kind='quicksort', which is not stable: every arrangement of the
\* rows with non-increasing scores is a possible result.
SortValuesDescending(rows) ==
  {[k \in 1..Len(rows) |-> rows[p[k]]] : p \in
     {q \in Perms(Len(rows)) :
        \A k \in 1..(Len(rows) - 1) :
           rows[q[k]].Inefficiency_Score >= rows[q[k + 1]].Inefficiency_Score}}

\* lines 85-99: one record per account, in the order of the accounts dict
AccountRecords(accs) ==
  [k \in 1..Len(accs) |->
     [Name |-> accs[k].Name,
      Balance |-> accs[k].Balance,
      Remaining |-> accs[k].Balance,
      Priority |-> Priority(accs[k].Name)]]

\* line 102: list.sort(key=Priority), a stable sort over the keys 1, 2, 3
SortByPriority(recs) ==
  SelectSeq(recs, LAMBDA r : r.Priority = 1)
    \o SelectSeq(recs, LAMBDA r : r.Priority = 2)
    \o SelectSeq(recs, LAMBDA r : r.Priority = 3)

\* --------------------------------------------------------- get_market_data
\* A missing value (NaN) and the numbers share one shape.
NaN == [nan |-> TRUE, v |-> 0]

Num(x) == [nan |-> FALSE, v |-> x]

\* The frame yf.download returns: whether it has rows, and one column per
\* ticker it has data for (in the order requested), with the annualized
\* volatility of the column's returns and the column's last Close.
HasColumn(d, t) == \E c \in 1..Len(d.cols) : d.cols[c].Ticker = t

\* lines 14-32
get_market_data(ts, d) ==
  IF Len(ts) = 1
  THEN IF ~HasColumn(d, ts[1])
       THEN [raised |-> TRUE, text |-> "Close price data not available", scalar |-> TRUE,
             volatility |-> <<>>, latest |-> <<>>]
       ELSE IF ~d.rows
       THEN [raised |-> TRUE, text |-> "No valid price data could be retrieved",
             scalar |-> TRUE, volatility |-> <<>>, latest |-> <<>>]
       ELSE [raised |-> FALSE, text |-> "", scalar |-> TRUE,
             volatility |-> [c \in 1..1 |-> [Asset |-> d.cols[c].Ticker, Vol |-> d.cols[c].volatility]],
             latest |-> [c \in 1..1 |-> [Asset |-> d.cols[c].Ticker, Price |-> d.cols[c].last]]]
  ELSE LET close_data == SelectSeq(d.cols, LAMBDA c : \E k \in 1..Len(ts) : ts[k] = c.Ticker) IN
       IF close_data = <<>> \/ ~d.rows
       THEN [raised |-> TRUE, text |-> "No valid price data could be retrieved",
             scalar |-> FALSE, volatility |-> <<>>, latest |-> <<>>]
       ELSE [raised |-> FALSE, text |-> "", scalar |-> FALSE,
             volatility |-> [c \in 1..Len(close_data) |->
                               [Asset |-> close_data[c].Ticker, Vol |-> close_data[c].volatility]],
             latest |-> [c \in 1..Len(close_data) |->
                           [Asset |-> close_data[c].Ticker, Price |-> close_data[c].last]]]

\* ------------------------------------------- calculate_risk_parity_weights
Max(a, b) == IF a >= b THEN a ELSE b

\* line 41: volatilities.clip(lower=min_vol)
clip(volatilities) ==
  [k \in 1..Len(volatilities) |->
     [Asset |-> volatilities[k].Asset, Vol |-> Max(volatilities[k].Vol, min_vol)]]

RECURSIVE ProductOfVols(_)
\* the common denominator of the inverse volatilities
ProductOfVols(volatilities) ==
  IF volatilities = <<>> THEN 1
  ELSE Head(volatilities).Vol * ProductOfVols(Tail(volatilities))

\* mutant: the volatility itself is used, not its inverse
inv_vol_NotInverted(volatilities) ==
  [k \in 1..Len(volatilities) |->
     [Asset |-> volatilities[k].Asset, Weight |-> volatilities[k].Vol]]

\* line 43: 1 / volatilities, each in units of 1 / ProductOfVols
inv_vol(volatilities) ==
  [k \in 1..Len(volatilities) |->
     [Asset |-> volatilities[k].Asset,
      Weight |-> ProductOfVols(volatilities) \div volatilities[k].Vol]]

RECURSIVE SumWeights(_)
\* inv_vol.sum()
SumWeights(ws) == IF ws = <<>> THEN 0 ELSE Head(ws).Weight + SumWeights(Tail(ws))

\* lines 40-45: weight k is weights[k].Weight / den
calculate_risk_parity_weights(volatilities) ==
  [weights |-> inv_vol(clip(volatilities)),
   den |-> SumWeights(inv_vol(clip(volatilities)))]

\* ------------------------------------------------------ the account report
\* line 220: subset['Asset'].map(prices)
Current_Price(latest, asset) ==
  IF \E c \in 1..Len(latest) : latest[c].Asset = asset
  THEN latest[CHOOSE c \in 1..Len(latest) : latest[c].Asset = asset].Price
  ELSE NaN

\* mutant: only missing prices are rejected
InvalidPrices_OnlyMissing(subset) == \E r \in 1..Len(subset) : subset[r].Current_Price.nan

\* line 223: a price of the account's entries is missing or not positive
InvalidPrices(subset) ==
  \/ \E r \in 1..Len(subset) : subset[r].Current_Price.nan
  \/ \E r \in 1..Len(subset) : ~subset[r].Current_Price.nan /\ subset[r].Current_Price.v <= 0

NoShares == [derived |-> FALSE, num |-> 0, den |-> 1]

\* line 230: Value / Current_Price as the fraction num / den; Value is in
\* units of 1/unit
Shares_To_Own(value, price, unit) == [derived |-> TRUE, num |-> value, den |-> price.v * unit]

VARIABLES
  pc,                     \* position in optimize_asset_location
  total_portfolio_value,  \* argument
  target_weights,         \* argument: sequence of [Asset, Weight]
  accounts,               \* argument: sequence of [Name, Balance] (dict order)
  assets_df,              \* the sorted asset rows
  sorted_accounts,        \* the sorted account records
  final_allocation,       \* the entries emitted so far
  i,                      \* index in assets_df of the asset being placed
  j,                      \* index in sorted_accounts of the account scanned
  amount_needed,
  rpc,                    \* position in the button handler (lines 160-240)
  tickers,                \* sidebar: the tickers requested
  data,                   \* what yf.download returns for them
  balances,               \* sidebar: [taxable_bal, trad_bal, roth_bal]
  vols,                   \* get_market_data's volatilities
  prices,                 \* get_market_data's latest prices
  run_weights,            \* the handler's target_weights: [weights, den]
  acct,                   \* index of the account being reported
  rendered                \* what the page shows, in order

alloc == <<pc, total_portfolio_value, target_weights, accounts, assets_df,
           sorted_accounts, final_allocation, i, j, amount_needed>>

run == <<rpc, tickers, data, balances, vols, prices, run_weights, acct, rendered>>

vars == <<alloc, run>>

args == <<total_portfolio_value, target_weights, accounts, run>>

TickerLists == UNION {DistinctSeqs(U) : U \in TickerUniverses}

NameLists == UNION {DistinctSeqs(U) : U \in NameUniverses}

WeightInputs ==
  UNION {{[k \in 1..Len(ts) |-> [Asset |-> ts[k], Weight |-> ws[k]]] :
            ws \in [1..Len(ts) -> 0..MaxWeight]} : ts \in TickerLists}

AccountInputs ==
  UNION {{[k \in 1..Len(ns) |-> [Name |-> ns[k], Balance |-> bs[k]]] :
            bs \in [1..Len(ns) -> 0..MaxBalance]} : ns \in NameLists}

\* The spec's scenarios (in thousands): A = TLT (score 10), B = SPY (score 2).
ScenarioWeights == <<[Asset |-> "SPY", Weight |-> 4], [Asset |-> "TLT", Weight |-> 6]>>

ScenarioFull ==
  <<[Name |-> "Brokerage", Balance |-> 2], [Name |-> "401k", Balance |-> 3],
    [Name |-> "Roth", Balance |-> 5]>>

ScenarioShort ==
  <<[Name |-> "401k", Balance |-> 3], [Name |-> "Roth", Balance |-> 5]>>

\* no run of the handler: optimize_asset_location is called on its own
NoRun ==
  /\ rpc = "idle"
  /\ tickers = <<>>
  /\ data = [rows |-> FALSE, cols |-> <<>>]
  /\ balances = [taxable_bal |-> 0, trad_bal |-> 0, roth_bal |-> 0]
  /\ vols = <<>>
  /\ prices = <<>>
  /\ run_weights = [weights |-> <<>>, den |-> 1]
  /\ acct = 0
  /\ rendered = <<>>

InitCall ==
  /\ pc = "start"
  /\ assets_df = <<>>
  /\ sorted_accounts = <<>>
  /\ final_allocation = <<>>
  /\ i = 0
  /\ j = 0
  /\ amount_needed = 0

Init ==
  /\ NoRun
  /\ InitCall
  /\ \/ /\ total_portfolio_value = 1
        /\ target_weights \in WeightInputs
        /\ accounts \in AccountInputs
     \/ /\ total_portfolio_value = 1
        /\ target_weights = ScenarioWeights
        /\ accounts \in {ScenarioFull, ScenarioShort}

\* lines 65-105: targets, the two sorts, the empty plan
Setup ==
  /\ pc = "start"
  /\ assets_df' \in SortValuesDescending(AssetRows(total_portfolio_value, target_weights))
  /\ sorted_accounts' = SortByPriority(AccountRecords(accounts))
  /\ final_allocation' = <<>>
  /\ i' = 1
  /\ pc' = "outer"
  /\ UNCHANGED <<args, j, amount_needed>>

\* lines 107-108: the next asset of the outer loop
NextAsset ==
  /\ pc = "outer"
  /\ i <= Len(assets_df)
  /\ amount_needed' = assets_df[i].Target_Value
  /\ j' = 1
  /\ pc' = "inner"
  /\ UNCHANGED <<args, assets_df, sorted_accounts, final_allocation, i>>

\* lines 110-112: nothing left to place for this asset
Break ==
  /\ pc = "inner"
  /\ j <= Len(sorted_accounts)
  /\ amount_needed <= 0
  /\ i' = i + 1
  /\ pc' = "outer"
  /\ UNCHANGED <<args, assets_df, sorted_accounts, final_allocation, j, amount_needed>>

\* mutant: the whole need is placed, whatever the room left
amount_to_place_NoCap(needed, remaining) == needed

\* mutant: the account is always filled up, whatever the need
amount_to_place_FillUp(needed, remaining) == remaining

\* line 116
amount_to_place(needed, remaining) == Min(needed, remaining)

\* mutant: line 121 is missing, the need is never reduced
Place_NeedNotReduced ==
  /\ pc = "inner"
  /\ j <= Len(sorted_accounts)
  /\ amount_needed > 0
  /\ sorted_accounts[j].Remaining > 0
  /\ LET placed == amount_to_place(amount_needed, sorted_accounts[j].Remaining) IN
       /\ sorted_accounts' =
            [sorted_accounts EXCEPT ![j].Remaining = @ - placed]
       /\ final_allocation' = Append(final_allocation,
            [Account |-> sorted_accounts[j].Name,
             Asset |-> assets_df[i].Asset,
             Value |-> placed,
             Tax_Type |-> Tax_Type(sorted_accounts[j].Priority)])
  /\ j' = j + 1
  /\ UNCHANGED <<args, assets_df, i, pc, amount_needed>>

\* lines 114-128: place as much as fits in the account scanned (the
\* account's Holdings, lines 98 and 119, are written and never read)
Place ==
  /\ pc = "inner"
  /\ j <= Len(sorted_accounts)
  /\ amount_needed > 0
  /\ sorted_accounts[j].Remaining > 0
  /\ LET placed == amount_to_place(amount_needed, sorted_accounts[j].Remaining) IN
       /\ sorted_accounts' =
            [sorted_accounts EXCEPT ![j].Remaining = @ - placed]
       /\ amount_needed' = amount_needed - placed
       /\ final_allocation' = Append(final_allocation,
            [Account |-> sorted_accounts[j].Name,
             Asset |-> assets_df[i].Asset,
             Value |-> placed,
             Tax_Type |-> Tax_Type(sorted_accounts[j].Priority)])
  /\ j' = j + 1
  /\ UNCHANGED <<args, assets_df, i, pc>>

\* line 114 false: the account scanned has nothing left
SkipAccount ==
  /\ pc = "inner"
  /\ j <= Len(sorted_accounts)
  /\ amount_needed > 0
  /\ ~(sorted_accounts[j].Remaining > 0)
  /\ j' = j + 1
  /\ UNCHANGED <<args, assets_df, sorted_accounts, final_allocation, i, amount_needed, pc>>

\* line 110: the accounts are exhausted for this asset
EndScan ==
  /\ pc = "inner"
  /\ j > Len(sorted_accounts)
  /\ i' = i + 1
  /\ pc' = "outer"
  /\ UNCHANGED <<args, assets_df, sorted_accounts, final_allocation, j, amount_needed>>

\* line 130: the plan is returned
Return ==
  /\ pc = "outer"
  /\ i > Len(assets_df)
  /\ pc' = "done"
  /\ UNCHANGED <<args, assets_df, sorted_accounts, final_allocation, i, j, amount_needed>>

Next == Setup \/ NextAsset \/ Break \/ Place \/ SkipAccount \/ EndScan \/ Return

Spec == Init /\ [][Next]_vars

\* ------------------------------------------------ the button handler
Range(seq) == {seq[k] : k \in 1..Len(seq)}

\* Tickers typed in the sidebar for the runs explored.
RunTickerLists == DistinctSeqs({"TLT", "SPY"})

PriceValues == {NaN} \cup {Num(x) : x \in 0..MaxPrice}

\* the tickers of ts the download has a column for, in the order requested
SubLists(ts) == {SelectSeq(ts, LAMBDA t : t \in S) : S \in SUBSET Range(ts)}

\* The frames yf.download can return for ts: any subset of the tickers has a
\* column; a frame without rows carries no numbers.
DataInputs(ts) ==
  UNION {{[rows |-> TRUE,
           cols |-> [c \in 1..Len(sub) |->
                       [Ticker |-> sub[c], volatility |-> vv[c], last |-> pp[c]]]] :
            vv \in [1..Len(sub) -> 0..MaxVol], pp \in [1..Len(sub) -> PriceValues]}
         \cup {[rows |-> FALSE,
                cols |-> [c \in 1..Len(sub) |->
                            [Ticker |-> sub[c], volatility |-> 0, last |-> NaN]]]} :
           sub \in SubLists(ts)}

\* before optimize_asset_location is called
NoCall ==
  /\ pc = "idle"
  /\ total_portfolio_value = 0
  /\ target_weights = <<>>
  /\ accounts = <<>>
  /\ assets_df = <<>>
  /\ sorted_accounts = <<>>
  /\ final_allocation = <<>>
  /\ i = 0
  /\ j = 0
  /\ amount_needed = 0

\* line 160: the button is clicked with the sidebar's inputs
InitRun ==
  /\ NoCall
  /\ rpc = "clicked"
  /\ tickers \in RunTickerLists
  /\ data \in DataInputs(tickers)
  /\ balances \in [taxable_bal : 0..MaxBalance, trad_bal : 0..MaxBalance,
                    roth_bal : 0..MaxBalance]
  /\ vols = <<>>
  /\ prices = <<>>
  /\ run_weights = [weights |-> <<>>, den |-> 1]
  /\ acct = 0
  /\ rendered = <<>>

\* line 155
total_equity == balances.taxable_bal + balances.trad_bal + balances.roth_bal

Output(kind, text, rows) == [kind |-> kind, text |-> text, rows |-> rows]

\* lines 238-240: the except clause
Handler(text) ==
  /\ rendered' = rendered \o
       <<Output("error", text, <<>>),
         Output("warning", "Make sure the tickers are valid", <<>>)>>
  /\ rpc' = "no_results"

\* line 164: get_market_data raises
FetchRaises ==
  /\ rpc = "clicked"
  /\ get_market_data(tickers, data).raised
  /\ Handler(get_market_data(tickers, data).text)
  /\ UNCHANGED <<alloc, tickers, data, balances, vols, prices, run_weights, acct>>

\* line 164: get_market_data returns
FetchOk ==
  /\ rpc = "clicked"
  /\ ~get_market_data(tickers, data).raised
  /\ vols' = get_market_data(tickers, data).volatility
  /\ prices' = get_market_data(tickers, data).latest
  /\ rpc' = "fetched"
  /\ UNCHANGED <<alloc, tickers, data, balances, run_weights, acct, rendered>>

\* lines 165-176 with one ticker: get_market_data returned scalars, not
\* Series; clip(lower=...) and the frame built from scalars both raise, before
\* anything is rendered
TargetsRaises ==
  /\ rpc = "fetched"
  /\ Len(tickers) = 1
  /\ Handler("scalar volatility")
  /\ UNCHANGED <<alloc, tickers, data, balances, vols, prices, run_weights, acct>>

\* lines 165-185: the weights, their table and the pie chart
RenderTargets ==
  /\ rpc = "fetched"
  /\ Len(tickers) # 1
  /\ run_weights' = calculate_risk_parity_weights(vols)
  /\ rendered' = rendered \o
       <<Output("weights_table", "", <<>>), Output("pie_chart", "", <<>>)>>
  /\ rpc' = "targets"
  /\ UNCHANGED <<alloc, tickers, data, balances, vols, prices, acct>>

\* lines 191-195: the accounts dict, balances in units of 1/den
RunAccounts ==
  <<[Name |-> "Taxable Account", Balance |-> balances.taxable_bal * run_weights.den],
    [Name |-> "Traditional IRA/401k", Balance |-> balances.trad_bal * run_weights.den],
    [Name |-> "Roth IRA", Balance |-> balances.roth_bal * run_weights.den]>>

\* line 197: optimize_asset_location is called
CallOptimize ==
  /\ rpc = "targets"
  /\ total_portfolio_value' = total_equity
  /\ target_weights' = run_weights.weights
  /\ accounts' = RunAccounts
  /\ pc' = "start"
  /\ assets_df' = <<>>
  /\ sorted_accounts' = <<>>
  /\ final_allocation' = <<>>
  /\ i' = 0
  /\ j' = 0
  /\ amount_needed' = 0
  /\ rpc' = "optimizing"
  /\ UNCHANGED <<tickers, data, balances, vols, prices, run_weights, acct, rendered>>

\* line 200: the plan is empty, it has no 'Value' column to pivot
PivotRaises ==
  /\ rpc = "optimizing"
  /\ pc = "done"
  /\ final_allocation = <<>>
  /\ Handler("'Value'")
  /\ UNCHANGED <<alloc, tickers, data, balances, vols, prices, run_weights, acct>>

\* lines 200-201: the placement table
Pivot ==
  /\ rpc = "optimizing"
  /\ pc = "done"
  /\ final_allocation # <<>>
  /\ rendered' = Append(rendered, Output("pivot_table", "", <<>>))
  /\ acct' = 1
  /\ rpc' = "report"
  /\ UNCHANGED <<alloc, tickers, data, balances, vols, prices, run_weights>>

\* lines 214, 219-220: the entries of the account reported, with their prices
Subset ==
  LET own == SelectSeq(final_allocation, LAMBDA e : e.Account = accounts[acct].Name) IN
    [r \in 1..Len(own) |->
       [Asset |-> own[r].Asset, Value |-> own[r].Value,
        Current_Price |-> Current_Price(prices, own[r].Asset)]]

\* line 212: the loop goes on to the next account of the dict
NextAccount ==
  /\ acct' = acct + 1
  /\ rpc' = IF acct = Len(accounts) THEN "finished" ELSE "report"

\* lines 215-216
ReportNoAssets ==
  /\ rpc = "report"
  /\ Subset = <<>>
  /\ rendered' = Append(rendered, Output("no_assets", accounts[acct].Name, <<>>))
  /\ NextAccount
  /\ UNCHANGED <<alloc, tickers, data, balances, vols, prices, run_weights>>

\* lines 223-228: no share count for the account
ReportValueOnly ==
  /\ rpc = "report"
  /\ Subset # <<>>
  /\ InvalidPrices(Subset)
  /\ rendered' = rendered \o
       <<Output("warning", accounts[acct].Name, <<>>),
         Output("account_table", accounts[acct].Name,
                [r \in 1..Len(Subset) |->
                   [Asset |-> Subset[r].Asset, Value |-> Subset[r].Value,
                    Current_Price |-> Subset[r].Current_Price, Shares |-> NoShares]])>>
  /\ NextAccount
  /\ UNCHANGED <<alloc, tickers, data, balances, vols, prices, run_weights>>

\* lines 229-236: the share counts of the account
ReportShares ==
  /\ rpc = "report"
  /\ Subset # <<>>
  /\ ~InvalidPrices(Subset)
  /\ rendered' = Append(rendered,
         Output("account_table", accounts[acct].Name,
                [r \in 1..Len(Subset) |->
                   [Asset |-> Subset[r].Asset, Value |-> Subset[r].Value,
                    Current_Price |-> Subset[r].Current_Price,
                    Shares |-> Shares_To_Own(Subset[r].Value, Subset[r].Current_Price,
                                             run_weights.den)]]))
  /\ NextAccount
  /\ UNCHANGED <<alloc, tickers, data, balances, vols, prices, run_weights>>

NextRun ==
  \/ FetchRaises \/ FetchOk \/ TargetsRaises \/ RenderTargets \/ CallOptimize
  \/ Setup \/ NextAsset \/ Break \/ Place \/ SkipAccount \/ EndScan \/ Return
  \/ PivotRaises \/ Pivot \/ ReportNoAssets \/ ReportValueOnly \/ ReportShares

SpecRun == InitRun /\ [][NextRun]_vars

\* ------------------------------- calculate_risk_parity_weights on its own
VolInputs ==
  UNION {{[k \in 1..Len(ts) |-> [Asset |-> ts[k], Vol |-> vv[k]]] :
            vv \in [1..Len(ts) -> 0..MaxVol]} : ts \in DistinctSeqs({"TLT", "IEF", "SPY"})}

InitWeights ==
  /\ NoCall
  /\ rpc = "weigh"
  /\ tickers = <<>>
  /\ data = [rows |-> FALSE, cols |-> <<>>]
  /\ balances = [taxable_bal |-> 0, trad_bal |-> 0, roth_bal |-> 0]
  /\ vols \in VolInputs
  /\ prices = <<>>
  /\ run_weights = [weights |-> <<>>, den |-> 1]
  /\ acct = 0
  /\ rendered = <<>>

\* line 165 alone
Weigh ==
  /\ rpc = "weigh"
  /\ run_weights' = calculate_risk_parity_weights(vols)
  /\ rpc' = "weighed"
  /\ UNCHANGED <<alloc, tickers, data, balances, vols, prices, acct, rendered>>

SpecWeights == InitWeights /\ [][Weigh]_vars

\* ------------------------------------------------------ reading a plan
RECURSIVE SumValue(_)
\* the sum of the Values of a sequence of entries
SumValue(plan) == IF plan = <<>> THEN 0 ELSE Head(plan).Value + SumValue(Tail(plan))

ValueInAccount(plan, name) == SumValue(SelectSeq(plan, LAMBDA e : e.Account = name))

ValueOfAsset(plan, asset) == SumValue(SelectSeq(plan, LAMBDA e : e.Asset = asset))

RECURSIVE SumTargets(_, _)
SumTargets(total, weights) ==
  IF weights = <<>> THEN 0
  ELSE Head(weights).Weight * total + SumTargets(total, Tail(weights))

RECURSIVE SumBalances(_)
SumBalances(accs) ==
  IF accs = <<>> THEN 0 ELSE Head(accs).Balance + SumBalances(Tail(accs))

InLoop == pc \in {"outer", "inner", "done"}

\* C1: at every point of the filling loop every account's Remaining is >= 0
\* and the Values of the entries emitted so far for that account sum to
\* Balance - Remaining; so no account receives more than its balance.
C1_RemainingAccounting ==
  InLoop =>
    \A k \in 1..Len(sorted_accounts) :
       /\ sorted_accounts[k].Remaining >= 0
       /\ ValueInAccount(final_allocation, sorted_accounts[k].Name)
            = sorted_accounts[k].Balance - sorted_accounts[k].Remaining
       /\ ValueInAccount(final_allocation, sorted_accounts[k].Name)
            <= sorted_accounts[k].Balance

\* C1 witness: in the middle of the loop one account holds entries of two
\* assets and another one is partly filled.
C1_Witness ==
  /\ pc = "inner"
  /\ \E k, m \in 1..Len(sorted_accounts) :
       /\ Len(SelectSeq(final_allocation,
                        LAMBDA e : e.Account = sorted_accounts[k].Name)) >= 2
       /\ sorted_accounts[m].Remaining > 0
       /\ sorted_accounts[m].Remaining < sorted_accounts[m].Balance

\* C2: the returned plan places min(sum of targets, sum of balances) in all.
C2_PlanTotal ==
  pc = "done" =>
    SumValue(final_allocation)
      = Min(SumTargets(total_portfolio_value, target_weights), SumBalances(accounts))

\* C2 witness: a returned plan of a shortfall input spread over two accounts.
C2_Witness ==
  /\ pc = "done"
  /\ SumTargets(total_portfolio_value, target_weights) > SumBalances(accounts)
  /\ \E a, b \in 1..Len(final_allocation) :
       final_allocation[a].Account # final_allocation[b].Account

\* The tier of each account name, classified by hand from the rule "Roth or
\* HSA, else IRA or 401k, else taxable".
ExpectedTier ==
  [n \in DOMAIN NameChars |->
     CASE n \in {"Roth IRA", "HSA", "Roth"} -> 1
       [] n \in {"Traditional IRA/401k", "401k"} -> 2
       [] OTHER -> 3]

ExpectedLabel(n) ==
  CASE ExpectedTier[n] = 1 -> "Tax-Free"
    [] ExpectedTier[n] = 2 -> "Deferred"
    [] OTHER -> "Taxable"

\* position of an account name / a ticker in the arguments
InputIndex(name) == CHOOSE k \in 1..Len(accounts) : accounts[k].Name = name

TickerIndex(asset) == CHOOSE k \in 1..Len(target_weights) : target_weights[k].Asset = asset

\* account a is filled strictly before account b
ComesBefore(a, b) ==
  \/ ExpectedTier[a] < ExpectedTier[b]
  \/ ExpectedTier[a] = ExpectedTier[b] /\ InputIndex(a) < InputIndex(b)

RemainingOf(name) ==
  LET k == CHOOSE m \in 1..Len(sorted_accounts) : sorted_accounts[m].Name = name
  IN sorted_accounts[k].Remaining

\* C3: an asset of strictly higher score never sits in an account that
\* comes after an account holding a lower-scored asset; the entries of the
\* higher-scored asset were emitted first; every account that comes before
\* an account holding an entry is exhausted; and the spec's scenario gives
\* A: Roth 5000 + 401k 1000, B: 401k 2000 + Brokerage 2000.
C3_OrderingContract ==
  InLoop =>
    /\ \A x, y \in 1..Len(final_allocation) :
         Inefficiency_Score(final_allocation[x].Asset)
            > Inefficiency_Score(final_allocation[y].Asset)
         => /\ ~ComesBefore(final_allocation[y].Account, final_allocation[x].Account)
            /\ x < y
    /\ \A y \in 1..Len(final_allocation) : \A k \in 1..Len(accounts) :
         ComesBefore(accounts[k].Name, final_allocation[y].Account)
         => RemainingOf(accounts[k].Name) = 0
    /\ (pc = "done" /\ target_weights = ScenarioWeights /\ accounts = ScenarioFull)
         => final_allocation =
              <<[Account |-> "Roth", Asset |-> "TLT", Value |-> 5, Tax_Type |-> "Tax-Free"],
                [Account |-> "401k", Asset |-> "TLT", Value |-> 1, Tax_Type |-> "Deferred"],
                [Account |-> "401k", Asset |-> "SPY", Value |-> 2, Tax_Type |-> "Deferred"],
                [Account |-> "Brokerage", Asset |-> "SPY", Value |-> 2, Tax_Type |-> "Taxable"]>>

\* C3 witness: a returned plan where a lower-scored asset shares an account
\* with a higher-scored one and continues in a later account.
C3_Witness ==
  /\ pc = "done"
  /\ \E x, y, z \in 1..Len(final_allocation) :
       /\ Inefficiency_Score(final_allocation[x].Asset)
            > Inefficiency_Score(final_allocation[y].Asset)
       /\ final_allocation[x].Account = final_allocation[y].Account
       /\ final_allocation[z].Asset = final_allocation[y].Asset
       /\ final_allocation[z].Account # final_allocation[y].Account

PlacedOf(k) == ValueOfAsset(final_allocation, assets_df[k].Asset)

HasEntry(k) == \E e \in 1..Len(final_allocation) : final_allocation[e].Asset = assets_df[k].Asset

\* C4 as stated: an asset placed for less than its target (an asset with no
\* entry included) has only fully placed assets before it and only assets
\* without entry after it.
C4_Original ==
  pc = "done" =>
    \A k \in 1..Len(assets_df) :
       /\ PlacedOf(k) <= assets_df[k].Target_Value
       /\ PlacedOf(k) < assets_df[k].Target_Value
          => /\ \A m \in 1..(k - 1) : PlacedOf(m) = assets_df[m].Target_Value
             /\ \A m \in (k + 1)..Len(assets_df) : ~HasEntry(m)

\* C4 amended: no asset is placed for more than its target; an asset that has
\* an entry and is placed for less than its target has only fully placed
\* assets before it and only assets without entry after it, so at most one
\* asset is partially placed; targets A 6000, B 4000 with accounts totalling
\* 8000 place A fully and 2000 of B.
C4_ShortfallPriority ==
  pc = "done" =>
    /\ \A k \in 1..Len(assets_df) :
         /\ PlacedOf(k) <= assets_df[k].Target_Value
         /\ (HasEntry(k) /\ PlacedOf(k) < assets_df[k].Target_Value)
            => /\ \A m \in 1..(k - 1) : PlacedOf(m) = assets_df[m].Target_Value
               /\ \A m \in (k + 1)..Len(assets_df) : ~HasEntry(m)
    /\ Cardinality({k \in 1..Len(assets_df) :
                      HasEntry(k) /\ PlacedOf(k) < assets_df[k].Target_Value}) <= 1
    /\ (target_weights = ScenarioWeights /\ accounts = ScenarioShort)
         => /\ ValueOfAsset(final_allocation, "TLT") = 6
            /\ ValueOfAsset(final_allocation, "SPY") = 2

\* C4 witness: a returned plan whose second asset is partially placed, after
\* a fully placed asset and before an asset with a positive target.
C4_Witness ==
  /\ pc = "done"
  /\ Len(assets_df) = 3
  /\ PlacedOf(1) = assets_df[1].Target_Value /\ PlacedOf(1) > 0
  /\ HasEntry(2) /\ PlacedOf(2) < assets_df[2].Target_Value
  /\ assets_df[3].Target_Value > 0

\* C8: every entry carries the label of its account's tier under the
\* first-match-wins classification of the account name; the accounts are
\* scanned by ascending tier, equal tiers in input order, and the entries of
\* one asset follow that order.
C8_TaxTypeAndFillOrder ==
  InLoop =>
    /\ \A e \in 1..Len(final_allocation) :
         final_allocation[e].Tax_Type = ExpectedLabel(final_allocation[e].Account)
    /\ Len(sorted_accounts) = Len(accounts)
    /\ \A a, b \in 1..Len(sorted_accounts) :
         a < b => ComesBefore(sorted_accounts[a].Name, sorted_accounts[b].Name)
    /\ \A p, q \in 1..Len(final_allocation) :
         (p < q /\ final_allocation[p].Asset = final_allocation[q].Asset)
         => ComesBefore(final_allocation[p].Account, final_allocation[q].Account)

\* C8 witness: a returned plan with entries in "HSA" and in "Roth IRA" (a
\* name that also contains "IRA"), "HSA" being first in the accounts dict.
C8_Witness ==
  /\ pc = "done"
  /\ accounts[1].Name = "HSA"
  /\ \E p, q \in 1..Len(final_allocation) :
       /\ p < q
       /\ final_allocation[p].Account = "HSA"
       /\ final_allocation[q].Account = "Roth IRA"
       /\ final_allocation[q].Tax_Type = "Tax-Free"

\* C10 as stated: the assets are processed by descending score, assets of
\* equal score in the order of the input target weights.
C10_StableAssetOrder ==
  InLoop =>
    \A a, b \in 1..Len(assets_df) :
       a < b =>
         \/ assets_df[a].Inefficiency_Score > assets_df[b].Inefficiency_Score
         \/ /\ assets_df[a].Inefficiency_Score = assets_df[b].Inefficiency_Score
            /\ TickerIndex(assets_df[a].Asset) < TickerIndex(assets_df[b].Asset)

\* ------------------------------------------------------ reading the page
NumericKinds == {"weights_table", "pie_chart", "pivot_table", "account_table"}

Shown(kinds) == {o \in 1..Len(rendered) : rendered[o].kind \in kinds}

\* C5 as stated: a run that fails ends with a single error message and no
\* numeric output rendered.
C5_AtomicRun ==
  rpc = "no_results" =>
    /\ Shown(NumericKinds) = {}
    /\ Cardinality(Shown({"error"})) = 1

ValidPrice(p) == ~p.nan /\ p.v > 0

\* share count x price = value, the value being Value / den dollars
RoundTrip(row) ==
  row.Shares.num * row.Current_Price.v * run_weights.den = row.Value * row.Shares.den

\* C6 as stated: every entry with a present and positive price gets the share
\* count Value / Current_Price whatever the other prices of its account, only
\* the entries with a missing or non-positive price are value-only, and the
\* run is not aborted.
C6_PerEntryShares ==
  /\ \A o \in Shown({"account_table"}) : \A r \in 1..Len(rendered[o].rows) :
       IF ValidPrice(rendered[o].rows[r].Current_Price)
       THEN rendered[o].rows[r].Shares.derived /\ RoundTrip(rendered[o].rows[r])
       ELSE ~rendered[o].rows[r].Shares.derived
  /\ Shown({"account_table"}) # {} => rpc # "no_results"

\* C6 amended: the share counts Value / Current_Price are derived for the
\* entries of an account all of whose entries have a present and positive
\* price; one missing or non-positive price in an account skips the share
\* counts of all its entries, which are shown value-only under a warning;
\* the tables list the plan's entries of the account, the other accounts are
\* not affected and the run is not aborted.
C6_PerAccountShares ==
  /\ \A o \in Shown({"account_table"}) :
       LET rows == rendered[o].rows
           own == SelectSeq(final_allocation, LAMBDA e : e.Account = rendered[o].text)
       IN /\ Len(rows) = Len(own)
          /\ \A r \in 1..Len(rows) :
               /\ rows[r].Asset = own[r].Asset /\ rows[r].Value = own[r].Value
               /\ IF \A q \in 1..Len(rows) : ValidPrice(rows[q].Current_Price)
                  THEN rows[r].Shares.derived /\ RoundTrip(rows[r])
                  ELSE /\ ~rows[r].Shares.derived
                       /\ rendered[o - 1] = Output("warning", rendered[o].text, <<>>)
  /\ Shown({"account_table"}) # {} => rpc # "no_results"
  /\ rpc = "finished" =>
       Cardinality(Shown({"account_table", "no_assets"})) = Len(accounts)

\* C6 witness: a finished run with a value-only account that mixes a valid
\* and an invalid price, and another account with share counts.
C6_Witness ==
  /\ rpc = "finished"
  /\ \E o \in Shown({"account_table"}) :
       /\ \E r, q \in 1..Len(rendered[o].rows) :
            /\ ValidPrice(rendered[o].rows[r].Current_Price)
            /\ ~ValidPrice(rendered[o].rows[q].Current_Price)
       /\ \A r \in 1..Len(rendered[o].rows) : ~rendered[o].rows[r].Shares.derived
  /\ \E o \in Shown({"account_table"}) :
       \E r \in 1..Len(rendered[o].rows) :
          rendered[o].rows[r].Shares.derived /\ rendered[o].rows[r].Value > 0

\* a requested ticker without a price series in the download
NoSeries(t) == ~HasColumn(data, t) \/ ~data.rows

\* C7 as stated: get_market_data raises, before any weight or allocation,
\* as soon as one requested ticker has no price series, and never returns
\* volatilities or prices for fewer tickers than requested.
C7_FailsOnAnyMissingTicker ==
  rpc # "clicked" =>
    /\ (\E k \in 1..Len(tickers) : NoSeries(tickers[k]))
         => /\ rpc = "no_results"
            /\ vols = <<>>
            /\ run_weights.weights = <<>>
            /\ pc = "idle"
    /\ vols # <<>> =>
         /\ {vols[k].Asset : k \in 1..Len(vols)} = Range(tickers)
         /\ {prices[k].Asset : k \in 1..Len(prices)} = Range(tickers)

\* C9: every weight is > 0; an asset of lower or equal volatility never has
\* a lower weight; the assets at or below the floor share the maximal weight.
C9_MonotoneWeights ==
  rpc = "weighed" =>
    LET w == run_weights.weights IN
      /\ Len(w) = Len(vols)
      /\ run_weights.den > 0
      /\ \A a \in 1..Len(vols) :
           /\ w[a].Asset = vols[a].Asset
           /\ w[a].Weight > 0
           /\ \A b \in 1..Len(vols) :
                /\ vols[a].Vol <= vols[b].Vol => w[a].Weight >= w[b].Weight
                /\ vols[a].Vol <= min_vol => w[a].Weight >= w[b].Weight
                /\ (vols[a].Vol <= min_vol /\ vols[b].Vol <= min_vol)
                     => w[a].Weight = w[b].Weight

\* C9 witness: weights of a zero volatility, a volatility under the floor
\* and one over it.
C9_Witness ==
  /\ rpc = "weighed"
  /\ Len(vols) = 3
  /\ vols[1].Vol > min_vol /\ vols[2].Vol = 0 /\ vols[3].Vol > 0 /\ vols[3].Vol < min_vol
  /\ run_weights.weights[2].Weight = run_weights.weights[3].Weight
  /\ run_weights.weights[2].Weight > run_weights.weights[1].Weight

====
